---- MODULE Spec2Model ----
(***************************************************************************)
(* Reverse-dependency search of cmd/poc1/command/root.go: RootRunner.Run   *)
(* looks the target package up in a parsed DOT graph, collects the         *)
(* packages that depend on it with findDependentsWithDepth / searchAtDepth *)
(* and prints them grouped by depth.                                       *)
(*                                                                         *)
(* A name is a sequence of one-character strings, so that the quote        *)
(* stripping of normalizeNodeName is computed and not assumed.             *)
(***************************************************************************)
EXTENDS Integers, Sequences, FiniteSets, TLC

VARIABLES
    Lookup,     \* graph.Nodes.Lookup: the raw node names of the parsed graph
    Edges,      \* graph.Edges.Edges: the edges in declaration order
    PkgName,    \* RootRunner.PkgName
    MaxDepth,   \* RootRunner.MaxDepth
    pc,         \* position of Run: "run", "search", "report", "done", "error"
    err,        \* error returned by Run ("" while none)
    visited,    \* visited map of findDependentsWithDepth (the keys set to true)
    result,     \* result slice of findDependentsWithDepth
    stack,      \* call stack of searchAtDepth, innermost call last
    calls,      \* targetNodeName of every searchAtDepth call made so far
    output      \* depth tiers printed by Run

vars == <<Lookup, Edges, PkgName, MaxDepth, pc, err, visited, result, stack,
          calls, output>>

-----------------------------------------------------------------------------
(* Names *)

Q == "\""

TopNode == <<"R", "P", "M", "-", "P", "a", "c", "k", "a", "g", "e", "s">>

Quoted(name) == <<Q>> \o name \o <<Q>>

RECURSIVE TrimLeft(_)
TrimLeft(name) ==
    IF name # <<>> /\ Head(name) = Q THEN TrimLeft(Tail(name)) ELSE name

RECURSIVE TrimRight(_)
TrimRight(name) ==
    IF name # <<>> /\ name[Len(name)] = Q
    THEN TrimRight(SubSeq(name, 1, Len(name) - 1))
    ELSE name

\* strings.Trim(name, `"`)
normalizeNodeName(name) == TrimRight(TrimLeft(name))

-----------------------------------------------------------------------------
(* Graph accessors *)

\* faulty variant: a node whose name merely starts with the package name is accepted
MatchesPackage_Prefix(nodeName, packageName) ==
    /\ Len(packageName) <= Len(normalizeNodeName(nodeName))
    /\ SubSeq(normalizeNodeName(nodeName), 1, Len(packageName)) = packageName

\* the loop condition of findExactPackage for one key of the lookup table
MatchesPackage(nodeName, packageName) ==
    normalizeNodeName(nodeName) = packageName

RECURSIVE DirectDependentsFrom(_, _, _, _)
DirectDependentsFrom(edges, targetNodeName, seen, dependents) ==
    IF edges = <<>> THEN dependents
    ELSE LET edge == Head(edges)
             srcName == normalizeNodeName(edge.Src)
         IN  IF normalizeNodeName(edge.Dst) = targetNodeName /\ srcName \notin seen
             THEN DirectDependentsFrom(Tail(edges), targetNodeName,
                                       seen \cup {srcName},
                                       Append(dependents, edge.Src))
             ELSE DirectDependentsFrom(Tail(edges), targetNodeName, seen,
                                       dependents)

\* faulty variant: a source met again is moved to the end of the list
RECURSIVE DirectDependentsLastWins(_, _, _)
DirectDependentsLastWins(edges, targetNodeName, dependents) ==
    IF edges = <<>> THEN dependents
    ELSE LET edge == Head(edges)
             srcName == normalizeNodeName(edge.Src)
         IN  IF normalizeNodeName(edge.Dst) = targetNodeName
             THEN DirectDependentsLastWins(Tail(edges), targetNodeName,
                      Append(SelectSeq(dependents,
                                 LAMBDA d : normalizeNodeName(d) # srcName),
                             edge.Src))
             ELSE DirectDependentsLastWins(Tail(edges), targetNodeName,
                                           dependents)

findDirectDependents_LastWins(edges, targetNodeName) ==
    DirectDependentsLastWins(edges, targetNodeName, <<>>)

\* faulty variant: the destination is compared as it is spelled in the edge
RECURSIVE DirectDependentsRawDst(_, _, _, _)
DirectDependentsRawDst(edges, targetNodeName, seen, dependents) ==
    IF edges = <<>> THEN dependents
    ELSE LET edge == Head(edges)
             srcName == normalizeNodeName(edge.Src)
         IN  IF edge.Dst = targetNodeName /\ srcName \notin seen
             THEN DirectDependentsRawDst(Tail(edges), targetNodeName,
                                         seen \cup {srcName},
                                         Append(dependents, edge.Src))
             ELSE DirectDependentsRawDst(Tail(edges), targetNodeName, seen,
                                         dependents)

findDirectDependents_RawDst(edges, targetNodeName) ==
    DirectDependentsRawDst(edges, targetNodeName, {}, <<>>)

\* lines 44-57
findDirectDependents(edges, targetNodeName) ==
    DirectDependentsFrom(edges, targetNodeName, {}, <<>>)

\* faulty variant: every dependent is taken as new
IsVisited_Never(depNodeName, visitedNames) ==
    FALSE

\* line 84: visited[depNodeName]
IsVisited(depNodeName, visitedNames) ==
    depNodeName \in visitedNames

\* faulty variant: the call at the bound still runs, one level too deep
BoundReached_OffByOne(currentDepth, maxDepth) ==
    maxDepth > 0 /\ currentDepth > maxDepth

\* faulty variant: a non-positive bound is taken as a bound
BoundReached_AnyBound(currentDepth, maxDepth) ==
    currentDepth >= maxDepth

\* line 77: the depth bound stops the call before it looks at the graph
BoundReached(currentDepth, maxDepth) ==
    maxDepth > 0 /\ currentDepth >= maxDepth

\* faulty variant: the sentinel is not marked visited
InitialVisited_TargetOnly(targetNodeName) ==
    {normalizeNodeName(targetNodeName)}

\* faulty variant: the target is not marked visited
InitialVisited_TopNodeOnly(targetNodeName) ==
    {TopNode}

\* lines 66-69: the names marked visited before the first call
InitialVisited(targetNodeName) ==
    {TopNode, normalizeNodeName(targetNodeName)}

\* faulty variant: the record takes the depth of the call, not the next one
DependentWithDepth_NoIncrement(depNodeName, currentDepth) ==
    [NodeName |-> depNodeName, Depth |-> currentDepth]

\* lines 88-91: the record appended for a newly visited dependent
DependentWithDepth(depNodeName, currentDepth) ==
    [NodeName |-> depNodeName, Depth |-> currentDepth + 1]

\* line 120
NotFoundError(targetName) ==
    <<targetName, " package is Not Found in your SBOM DOT File.">>

-----------------------------------------------------------------------------
(* findDependentsWithDepth as one call: the value it returns *)

\* lines 81-93: st is [visited, result, queue]
RECURSIVE VisitDependents(_, _, _)
VisitDependents(directDependents, currentDepth, st) ==
    IF directDependents = <<>> THEN st
    ELSE LET depNodeName == normalizeNodeName(Head(directDependents))
         IN  IF IsVisited(depNodeName, st.visited)
             THEN VisitDependents(Tail(directDependents), currentDepth, st)
             ELSE VisitDependents(Tail(directDependents), currentDepth,
                      [visited |-> st.visited \cup {depNodeName},
                       result |-> Append(st.result,
                                     DependentWithDepth(depNodeName, currentDepth)),
                       queue |-> Append(st.queue, depNodeName)])

RECURSIVE searchAtDepth(_, _, _, _, _)
RECURSIVE SearchQueue(_, _, _, _, _)

\* lines 94-97: st is [visited, result]
SearchQueue(edges, queue, currentDepth, maxDepth, st) ==
    IF queue = <<>> THEN st
    ELSE LET depNodeName == normalizeNodeName(Head(queue))
         IN  SearchQueue(edges, Tail(queue), currentDepth, maxDepth,
                 searchAtDepth(edges, normalizeNodeName(depNodeName),
                               currentDepth + 1, maxDepth, st))

\* lines 74-99: st is [visited, result], the map and the slice the call shares
searchAtDepth(edges, targetNodeName, currentDepth, maxDepth, st) ==
    IF BoundReached(currentDepth, maxDepth) THEN st
    ELSE LET scanned == VisitDependents(
                            findDirectDependents(edges, targetNodeName),
                            currentDepth,
                            [visited |-> st.visited, result |-> st.result,
                             queue |-> <<>>])
         IN  SearchQueue(edges, scanned.queue, currentDepth, maxDepth,
                         [visited |-> scanned.visited, result |-> scanned.result])

\* lines 64-72
findDependentsWithDepth(edges, targetNodeName, maxDepth) ==
    searchAtDepth(edges, targetNodeName, 0, maxDepth,
                  [visited |-> InitialVisited(targetNodeName),
                   result |-> <<>>]).result

-----------------------------------------------------------------------------
(* Report of Run, lines 124-141 *)

RECURSIVE DepthMapFrom(_, _)
DepthMapFrom(records, depthMap) ==
    IF records = <<>> THEN depthMap
    ELSE LET dep == Head(records)
             old == IF dep.Depth \in DOMAIN depthMap
                    THEN depthMap[dep.Depth] ELSE <<>>
         IN  DepthMapFrom(Tail(records),
                 [d \in DOMAIN depthMap \cup {dep.Depth} |->
                     IF d = dep.Depth THEN Append(old, dep) ELSE depthMap[d]])

\* lines 124-126: depthMap[dep.Depth] = append(depthMap[dep.Depth], dep)
DepthMap(records) == DepthMapFrom(records, <<>>)

RECURSIVE ActualMaxDepthFrom(_, _)
ActualMaxDepthFrom(records, actualMaxDepth) ==
    IF records = <<>> THEN actualMaxDepth
    ELSE ActualMaxDepthFrom(Tail(records),
             IF Head(records).Depth > actualMaxDepth
             THEN Head(records).Depth ELSE actualMaxDepth)

\* lines 106, 127-129
ActualMaxDepth(records) == ActualMaxDepthFrom(records, 0)

\* lines 137-140: the header and the numbered members of one tier
PrintTier(depth, deps) ==
    [depth |-> depth, num |-> Len(deps),
     lines |-> [i \in 1..Len(deps) |-> <<i, deps[i].NodeName>>]]

RECURSIVE PrintTiersFrom(_, _, _, _)
PrintTiersFrom(depth, actualMaxDepth, depthMap, printed) ==
    IF ~(depth <= actualMaxDepth) THEN printed
    ELSE LET deps == IF depth \in DOMAIN depthMap THEN depthMap[depth] ELSE <<>>
         IN  IF Len(deps) = 0
             THEN PrintTiersFrom(depth + 1, actualMaxDepth, depthMap, printed)
             ELSE PrintTiersFrom(depth + 1, actualMaxDepth, depthMap,
                                 Append(printed, PrintTier(depth, deps)))

\* faulty variant: the loop stops one depth short
PrintTiers_StopsEarly(records) ==
    PrintTiersFrom(1, ActualMaxDepth(records) - 1, DepthMap(records), <<>>)

\* lines 132-141
PrintTiers(records) ==
    PrintTiersFrom(1, ActualMaxDepth(records), DepthMap(records), <<>>)

-----------------------------------------------------------------------------
(* The graphs, targets and depth bounds explored *)

MaxEdges == 6
MaxBound == 3

N(ch) == <<ch>>
E(src, dst) == [Src |-> src, Dst |-> dst]

\* Edge statements of the DOT input; a graph takes some of them, in this order.
EdgePool ==
    << E(N("a"), N("t")),
       E(Quoted(N("c")), Quoted(N("t"))),
       E(N("y"), N("a")),
       E(N("x"), N("y")),
       E(N("x"), N("c")),
       E(N("z"), N("x")),
       E(N("t"), N("t")),
       E(N("t"), N("a")),
       E(Quoted(TopNode), N("t")),
       E(N("z"), Quoted(TopNode)),
       E(N("a"), N("t")),
       E(N("y"), N("y")),
       E(N("a"), N("y")),
       E(N("z"), Quoted(N("c"))) >>

\* A node statement of the DOT input with no edge.
DeclaredNodes == {Quoted(N("w"))}

Targets == {N("t"), N("w"), Quoted(N("t")), <<"R", "P", "M">>}

DepthBounds == {-1, 0} \cup (1..MaxBound)

RECURSIVE Pick(_, _, _)
Pick(pool, chosen, i) ==
    IF i > Len(pool) THEN <<>>
    ELSE IF i \in chosen THEN <<pool[i]>> \o Pick(pool, chosen, i + 1)
         ELSE Pick(pool, chosen, i + 1)

Graphs ==
    {Pick(EdgePool, chosen, 1) :
        chosen \in {c \in SUBSET (1..Len(EdgePool)) : Cardinality(c) <= MaxEdges}}

\* gographviz adds a node for both ends of every edge statement
NodesOf(edges) ==
    DeclaredNodes \cup {edges[i].Src : i \in 1..Len(edges)}
                  \cup {edges[i].Dst : i \in 1..Len(edges)}

-----------------------------------------------------------------------------
(* Run, findDependentsWithDepth and searchAtDepth as steps *)

Frame(targetNodeName, currentDepth) ==
    [targetNodeName |-> targetNodeName, currentDepth |-> currentDepth,
     at |-> "entry", directDependents |-> <<>>, queue |-> <<>>]

Top == stack[Len(stack)]
Pop == SubSeq(stack, 1, Len(stack) - 1)
SetTop(frame) == [stack EXCEPT ![Len(stack)] = frame]

Init ==
    /\ Edges \in Graphs
    /\ Lookup = NodesOf(Edges)
    /\ PkgName \in Targets
    /\ MaxDepth \in DepthBounds
    /\ pc = "run"
    /\ err = ""
    /\ visited = {}
    /\ result = <<>>
    /\ stack = <<>>
    /\ calls = <<>>
    /\ output = <<>>

\* lines 119-121: findExactPackage finds no key of the lookup table
RunNotFound ==
    /\ pc = "run"
    /\ ~ \E nodeName \in Lookup : MatchesPackage(nodeName, PkgName)
    /\ pc' = "error"
    /\ err' = NotFoundError(PkgName)
    /\ UNCHANGED <<Lookup, Edges, PkgName, MaxDepth, visited, result, stack,
                   calls, output>>

\* faulty variant: the search starts from the key the lookup happened to hit
SearchTarget_LookupKey(targetName, nodeName) ==
    nodeName

\* lines 119, 123: what findExactPackage returns for the key it hit is dropped
\* (_, found) and the search is given targetName
SearchTarget(targetName, nodeName) ==
    targetName

\* lines 119, 123, 64-70: the target is found and the search is started; the
\* range over the lookup map may hit any matching key first
RunFound ==
    /\ pc = "run"
    /\ \E nodeName \in Lookup :
           /\ MatchesPackage(nodeName, PkgName)
           /\ LET targetNodeName == SearchTarget(PkgName, nodeName)
              IN  /\ visited' = InitialVisited(targetNodeName)
                  /\ stack' = <<Frame(targetNodeName, 0)>>
                  /\ calls' = <<targetNodeName>>
    /\ pc' = "search"
    /\ result' = <<>>
    /\ UNCHANGED <<Lookup, Edges, PkgName, MaxDepth, err, output>>

\* lines 77-79
SearchReturnAtBound ==
    /\ pc = "search" /\ stack # <<>>
    /\ Top.at = "entry"
    /\ BoundReached(Top.currentDepth, MaxDepth)
    /\ stack' = Pop
    /\ UNCHANGED <<Lookup, Edges, PkgName, MaxDepth, pc, err, visited, result,
                   calls, output>>

\* line 80
SearchExpand ==
    /\ pc = "search" /\ stack # <<>>
    /\ Top.at = "entry"
    /\ ~BoundReached(Top.currentDepth, MaxDepth)
    /\ stack' = SetTop([Top EXCEPT
            !.at = "loop",
            !.directDependents = findDirectDependents(Edges, Top.targetNodeName)])
    /\ UNCHANGED <<Lookup, Edges, PkgName, MaxDepth, pc, err, visited, result,
                   calls, output>>

\* lines 81-86: a dependent already visited is passed over
VisitSkip ==
    /\ pc = "search" /\ stack # <<>>
    /\ Top.at = "loop" /\ Top.directDependents # <<>>
    /\ IsVisited(normalizeNodeName(Head(Top.directDependents)), visited)
    /\ stack' = SetTop([Top EXCEPT !.directDependents = Tail(@)])
    /\ UNCHANGED <<Lookup, Edges, PkgName, MaxDepth, pc, err, visited, result,
                   calls, output>>

\* lines 81-92: a new dependent is marked, recorded and queued
VisitAppend ==
    /\ pc = "search" /\ stack # <<>>
    /\ Top.at = "loop" /\ Top.directDependents # <<>>
    /\ LET depNodeName == normalizeNodeName(Head(Top.directDependents))
       IN  /\ ~IsVisited(depNodeName, visited)
           /\ visited' = visited \cup {depNodeName}
           /\ result' = Append(result,
                               DependentWithDepth(depNodeName, Top.currentDepth))
           /\ stack' = SetTop([Top EXCEPT !.directDependents = Tail(@),
                                          !.queue = Append(@, depNodeName)])
    /\ UNCHANGED <<Lookup, Edges, PkgName, MaxDepth, pc, err, calls, output>>

\* lines 94-97: the next queued dependent is searched one level deeper
SearchRecurse ==
    /\ pc = "search" /\ stack # <<>>
    /\ Top.at = "loop" /\ Top.directDependents = <<>> /\ Top.queue # <<>>
    /\ LET depNodeName == normalizeNodeName(Head(Top.queue))
           callee == Frame(normalizeNodeName(depNodeName), Top.currentDepth + 1)
       IN  /\ stack' = Append(SetTop([Top EXCEPT !.queue = Tail(@)]), callee)
           /\ calls' = Append(calls, callee.targetNodeName)
    /\ UNCHANGED <<Lookup, Edges, PkgName, MaxDepth, pc, err, visited, result,
                   output>>

\* line 98
SearchReturn ==
    /\ pc = "search" /\ stack # <<>>
    /\ Top.at = "loop" /\ Top.directDependents = <<>> /\ Top.queue = <<>>
    /\ stack' = Pop
    /\ UNCHANGED <<Lookup, Edges, PkgName, MaxDepth, pc, err, visited, result,
                   calls, output>>

\* lines 71, 123: findDependentsWithDepth returns to Run
SearchDone ==
    /\ pc = "search" /\ stack = <<>>
    /\ pc' = "report"
    /\ UNCHANGED <<Lookup, Edges, PkgName, MaxDepth, err, visited, result,
                   stack, calls, output>>

\* lines 124-143
RunReport ==
    /\ pc = "report"
    /\ output' = PrintTiers(result)
    /\ pc' = "done"
    /\ UNCHANGED <<Lookup, Edges, PkgName, MaxDepth, err, visited, result,
                   stack, calls>>

Next ==
    \/ RunNotFound
    \/ RunFound
    \/ SearchReturnAtBound
    \/ SearchExpand
    \/ VisitSkip
    \/ VisitAppend
    \/ SearchRecurse
    \/ SearchReturn
    \/ SearchDone
    \/ RunReport

Spec == Init /\ [][Next]_vars

\* Run is one call that runs to its return: no step is held back for ever
FairSpec == Spec /\ WF_vars(Next)

\* The stepwise search ends with the value of the call.
StepsAgreeWithCall ==
    pc \in {"report", "done"} =>
        result = findDependentsWithDepth(Edges, PkgName, MaxDepth)

-----------------------------------------------------------------------------
(* Reverse paths of the graph, by canonical name *)

Target == normalizeNodeName(PkgName)

CanonicalNodes == {normalizeNodeName(nodeName) : nodeName \in Lookup}

CanonicalEdges ==
    {<<normalizeNodeName(Edges[i].Src), normalizeNodeName(Edges[i].Dst)>> :
        i \in 1..Len(Edges)}

Dependents(names) == {e[1] : e \in {f \in CanonicalEdges : f[2] \in names}}

\* The names at most k edges behind the target.  A path is not continued
\* behind TopNode, the reading of "reverse path" most favourable to the code.
RECURSIVE Within(_)
Within(k) ==
    IF k = 0 THEN {Target}
    ELSE LET near == Within(k - 1)
         IN  near \cup Dependents((near \ {TopNode}) \cup {Target})

Reachable == Within(Cardinality(CanonicalNodes))

\* length of the shortest reverse path from the target to name
ShortestDepth(name) ==
    CHOOSE k \in 0..Cardinality(CanonicalNodes) :
        /\ name \in Within(k)
        /\ \A j \in 0..(k - 1) : name \notin Within(j)

ResultNames == {result[i].NodeName : i \in 1..Len(result)}

Started == pc \in {"search", "report", "done"}

-----------------------------------------------------------------------------
(* Claims *)

\* C1: every record (N, d) of the search has d equal to the length of the
\* shortest reverse path from the target to N.
C1_ShortestDepthRecorded ==
    \A i \in 1..Len(result) :
        result[i].Depth = ShortestDepth(result[i].NodeName)

\* C2: with a positive bound K, when the search has returned, every name other
\* than the target and the sentinel whose shortest reverse path has at most K
\* edges is in the result.
C2_AllWithinBoundPresent ==
    (pc = "done" /\ MaxDepth > 0) =>
        (Within(MaxDepth) \ {Target, TopNode}) \subseteq ResultNames

\* C3: with a positive bound K no record ever has a depth above K, and no call
\* at a depth of K or more gets to its loop, where records are appended.
C3_DepthBoundRespected ==
    MaxDepth > 0 =>
        /\ \A i \in 1..Len(result) : result[i].Depth <= MaxDepth
        /\ \A k \in 1..Len(stack) :
               stack[k].at = "loop" => stack[k].currentDepth < MaxDepth

\* a bounded search has returned records at depth K and left out names that
\* lie further behind the target
C3_Witness ==
    /\ pc = "done" /\ MaxDepth > 0
    /\ \E i \in 1..Len(result) : result[i].Depth = MaxDepth
    /\ Reachable \ visited # {}

\* C4: the records are appended in layer order, so the depths of the result
\* never decrease from one element to the next.
C4_NonDecreasingDepth ==
    \A i, j \in 1..Len(result) :
        i < j => result[i].Depth <= result[j].Depth

NoDuplicateNames ==
    \A i, j \in 1..Len(result) :
        result[i].NodeName = result[j].NodeName => i = j

AppendedWhenFirstVisited ==
    result' # result =>
        \E name \in visited' \ visited :
            /\ visited' = visited \cup {name}
            /\ Len(result') = Len(result) + 1
            /\ SubSeq(result', 1, Len(result)) = result
            /\ result'[Len(result')].NodeName = name

\* C5: at every step the result holds each canonical name at most once, and a
\* name is appended only in the step that first adds it to the visited set.
C5_NoDuplicates ==
    [](NoDuplicateNames) /\ [][AppendedWhenFirstVisited]_vars

\* an unbounded search has returned a name that has two edges into searched
\* names (a repeated edge, a diamond or a cycle)
C5_Witness ==
    /\ pc = "done" /\ MaxDepth <= 0
    /\ \E i, j \in 1..Len(Edges) :
           /\ i # j
           /\ normalizeNodeName(Edges[i].Src) = normalizeNodeName(Edges[j].Src)
           /\ normalizeNodeName(Edges[i].Src) \in ResultNames
           /\ normalizeNodeName(Edges[i].Dst) \in ResultNames \cup {Target}
           /\ normalizeNodeName(Edges[j].Dst) \in ResultNames \cup {Target}
    /\ \E name \in ResultNames : <<name, name>> \in CanonicalEdges

\* C6: once the search is started the target and the sentinel are visited, and
\* neither is ever a record of the result.
C6_TargetAndTopNodeExcluded ==
    Started =>
        /\ {Target, TopNode} \subseteq visited
        /\ ResultNames \cap {Target, TopNode} = {}

\* a search has returned on a graph with a self-loop on the target, a cycle
\* through the target and an edge from the sentinel to a searched name
C6_Witness ==
    /\ pc = "done" /\ result # <<>>
    /\ <<Target, Target>> \in CanonicalEdges
    /\ \E name \in ResultNames : <<Target, name>> \in CanonicalEdges
    /\ \E name \in ResultNames \cup {Target} : <<TopNode, name>> \in CanonicalEdges

\* C7: once Run is past the lookup: if no canonical node name equals the target
\* name, Run has returned the not-found error with no search started and
\* nothing printed; otherwise no error is returned.
C7_NotFound ==
    pc # "run" =>
        IF PkgName \notin CanonicalNodes
        THEN /\ pc = "error" /\ err = NotFoundError(PkgName)
             /\ calls = <<>> /\ stack = <<>> /\ visited = {}
             /\ result = <<>> /\ output = <<>>
        ELSE pc # "error" /\ err = ""

IsProperPrefix(p, name) ==
    Len(p) < Len(name) /\ SubSeq(name, 1, Len(p)) = p

\* the error is returned for a target name that is a proper prefix of a
\* canonical node name
C7_Witness ==
    /\ pc = "error"
    /\ \E name \in CanonicalNodes : IsProperPrefix(PkgName, name)

\* C8: an unbounded search (bound 0 or -1) returns the records that the search
\* returns with a positive bound of at least the number of nodes.
C8_UnboundedEquivalence ==
    (pc = "done" /\ MaxDepth <= 0) =>
        \A K \in Cardinality(CanonicalNodes)..(Cardinality(CanonicalNodes) + 1) :
            /\ K > 0
            /\ result = findDependentsWithDepth(Edges, PkgName, K)

\* an unbounded search has returned a record deeper than MaxBound
C8_Witness ==
    /\ pc = "done" /\ MaxDepth <= 0
    /\ \E i \in 1..Len(result) : result[i].Depth > MaxBound

ExpandedAtMostOnce ==
    /\ \A i, j \in 1..Len(calls) : calls[i] = calls[j] => i = j
    /\ Len(calls) <= Cardinality(CanonicalNodes) + 1

\* C9: Run comes to its end on every graph, and searchAtDepth is called at most
\* once for a name, so at most (number of nodes + 1) times.
C9_Terminates ==
    <>(pc \in {"done", "error"}) /\ [](ExpandedAtMostOnce)

\* an unbounded search has returned on a graph with a cycle among the names it
\* searched
C9_Witness ==
    /\ pc = "done" /\ MaxDepth <= 0 /\ Len(calls) >= 3
    /\ \E n, m \in ResultNames :
           n # m /\ <<n, m>> \in CanonicalEdges /\ <<m, n>> \in CanonicalEdges

RecordsAt(depth) == SelectSeq(result, LAMBDA dep : dep.Depth = depth)

\* C10: the printed tiers have strictly increasing depths from 1 on, none is
\* empty, each lists exactly the records of its depth in result order numbered
\* from 1 under a header with their count, and every record is in one tier.
C10_Report ==
    pc = "done" =>
        /\ output # <<>> => output[1].depth = 1
        /\ \A g, h \in 1..Len(output) : g < h => output[g].depth < output[h].depth
        /\ \A g \in 1..Len(output) :
               LET deps == RecordsAt(output[g].depth)
               IN  /\ output[g].num >= 1
                   /\ output[g].num = Len(deps)
                   /\ output[g].lines =
                          [i \in 1..Len(deps) |-> <<i, deps[i].NodeName>>]
        /\ \A i \in 1..Len(result) :
               Cardinality({g \in 1..Len(output) :
                               output[g].depth = result[i].Depth}) = 1

\* three tiers are printed, one with several members, from records whose
\* depths are not in order
C10_Witness ==
    /\ pc = "done" /\ Len(output) >= 3
    /\ \E g \in 1..Len(output) : output[g].num >= 2
    /\ \E i \in 1..(Len(result) - 1) : result[i].Depth > result[i + 1].Depth

\* C11: for a fixed graph, target name and depth bound the records (and the
\* tiers printed from them) are the same in every run, whichever matching key
\* the range over the lookup map hits first: they are the value of
\* findDependentsWithDepth on the edges, the target name and the bound.
C11_Deterministic ==
    /\ pc \in {"report", "done"} =>
           result = findDependentsWithDepth(Edges, PkgName, MaxDepth)
    /\ pc = "done" =>
           output = PrintTiers(findDependentsWithDepth(Edges, PkgName, MaxDepth))

\* a search has returned records on a graph whose lookup map holds two keys
\* (two spellings) that match the target
C11_Witness ==
    /\ pc = "done" /\ Len(result) >= 2
    /\ Cardinality({nodeName \in Lookup : MatchesPackage(nodeName, PkgName)}) >= 2

\* C12: a second copy of an edge of the graph, appended to the edge list,
\* leaves the record sequence as it is (names, depths and order).
C12_DuplicateEdgeIdempotent ==
    pc = "done" =>
        \A i \in 1..Len(Edges) :
            findDependentsWithDepth(Append(Edges, Edges[i]), PkgName, MaxDepth)
                = result

\* a search has returned two direct dependents, and the edge of the first of
\* them is one of the edges copied behind the edge of the second
C12_Witness ==
    /\ pc = "done" /\ Len(result) >= 3
    /\ result[2].Depth = 1
    /\ \E i \in 1..Len(Edges) :
           /\ normalizeNodeName(Edges[i].Dst) = Target
           /\ normalizeNodeName(Edges[i].Src) = result[1].NodeName

\* C13: when the target is a node of the graph and no edge leads to it, or
\* only edges from itself or from the sentinel, the search appends no record,
\* for any depth bound, and Run prints no tier.
C13_EmptyResult ==
    (Started /\ Dependents({Target}) \subseteq {Target, TopNode}) =>
        /\ result = <<>>
        /\ output = <<>>
        /\ pc = "done" => PrintTiers(result) = <<>>

\* Run has ended for a target whose only incoming edges are its self-loop and
\* an edge from the sentinel, in a graph with further edges
C13_Witness ==
    /\ pc = "done" /\ Len(Edges) >= 4
    /\ Dependents({Target}) = {Target, TopNode}
    /\ Dependents({TopNode}) # {}

IsEdgeToTarget(i) == normalizeNodeName(Edges[i].Dst) = Target

\* the canonical sources of the edges into the target, without the target and
\* the sentinel, each at the place of its first edge in declaration order
DirectSources ==
    LET first(i) ==
            /\ IsEdgeToTarget(i)
            /\ normalizeNodeName(Edges[i].Src) \notin {Target, TopNode}
            /\ \A j \in 1..(i - 1) :
                   ~(/\ IsEdgeToTarget(j)
                     /\ normalizeNodeName(Edges[j].Src)
                            = normalizeNodeName(Edges[i].Src))
        chosen == SelectSeq([i \in 1..Len(Edges) |-> i], first)
    IN  [k \in 1..Len(chosen) |-> normalizeNodeName(Edges[chosen[k]].Src)]

\* C14: the depth-1 records of a finished search are the distinct canonical
\* sources of the edges into the target (not the target, not the sentinel) in
\* the order of their first edges, and with bound 1 they are the whole result.
C14_DirectDependents ==
    pc \in {"report", "done"} =>
        /\ [k \in 1..Len(RecordsAt(1)) |-> RecordsAt(1)[k].NodeName]
               = DirectSources
        /\ MaxDepth = 1 =>
               result = [k \in 1..Len(DirectSources) |->
                            [NodeName |-> DirectSources[k], Depth |-> 1]]

\* a search with bound 1 has returned two direct dependents, the first of
\* which has a second edge to the target declared after the edge of the other,
\* and has left out a name further behind
C14_Witness ==
    /\ pc = "done" /\ MaxDepth = 1 /\ Len(result) = 2
    /\ Reachable \ visited # {}
    /\ \E i, j, k \in 1..Len(Edges) :
           /\ i < j /\ j < k
           /\ IsEdgeToTarget(i) /\ IsEdgeToTarget(j) /\ IsEdgeToTarget(k)
           /\ normalizeNodeName(Edges[i].Src) = result[1].NodeName
           /\ normalizeNodeName(Edges[j].Src) = result[2].NodeName
           /\ normalizeNodeName(Edges[k].Src) = result[1].NodeName

HasNoOuterQuote(name) ==
    name # <<>> => (Head(name) # Q /\ name[Len(name)] # Q)

\* C15: a node is its canonical name.  The result and the visited set hold
\* names without surrounding quotes only, the result holds one record at most
\* for a canonical name, and an edge counts for a searched name however its
\* ends are spelled: when an unbounded search has returned, the source of each
\* edge into the target or into a recorded name is visited.
C15_CanonicalIdentity ==
    /\ \A name \in visited \cup ResultNames : HasNoOuterQuote(name)
    /\ \A i, j \in 1..Len(result) :
           normalizeNodeName(result[i].NodeName)
               = normalizeNodeName(result[j].NodeName) => i = j
    /\ ResultNames \subseteq visited
    /\ (pc \in {"report", "done"} /\ MaxDepth <= 0) =>
           \A k \in 1..Len(Edges) :
               normalizeNodeName(Edges[k].Dst) \in ResultNames \cup {Target}
                   => normalizeNodeName(Edges[k].Src) \in visited

\* an unbounded search has returned on a graph that spells the target with
\* quotes in an edge, and spells a recorded name with quotes as a source and
\* without quotes as a destination whose source is recorded too
C15_Witness ==
    /\ pc = "done" /\ MaxDepth <= 0
    /\ \E k, l \in 1..Len(Edges) :
           /\ Edges[k].Dst # PkgName /\ IsEdgeToTarget(k)
           /\ Edges[k].Src # Edges[l].Dst
           /\ normalizeNodeName(Edges[k].Src) = normalizeNodeName(Edges[l].Dst)
           /\ normalizeNodeName(Edges[l].Src) \in ResultNames

\* C16: at every step each record (N, d) has d >= 1 and stands for a reverse
\* path of d edges: an edge N -> target if d = 1, else an edge N -> M to a name
\* M recorded earlier with depth d - 1.  So N is among the names at most d
\* edges behind the target: it is reachable, and d is not below the length of
\* the shortest reverse path to N.
C16_DepthIsPathLength ==
    LET edges == CanonicalEdges
    IN  \A i \in 1..Len(result) :
            LET dep == result[i]
            IN  /\ dep.Depth >= 1
                /\ dep.Depth = 1 => <<dep.NodeName, Target>> \in edges
                /\ dep.Depth > 1 =>
                       \E j \in 1..(i - 1) :
                           /\ result[j].Depth = dep.Depth - 1
                           /\ <<dep.NodeName, result[j].NodeName>> \in edges
                /\ dep.NodeName \in Within(dep.Depth)

\* a search has returned a record deeper than its shortest reverse path, on a
\* graph with an edge from a name that is not behind the target
C16_Witness ==
    /\ pc = "done"
    /\ \E i \in 1..Len(result) :
           result[i].Depth > ShortestDepth(result[i].NodeName)
    /\ \E k \in 1..Len(Edges) : normalizeNodeName(Edges[k].Src) \notin Reachable

CalledNames == {calls[i] : i \in 1..Len(calls)}

\* C17: when an unbounded search has returned, the recorded names are the
\* names other than the target and the sentinel that a reverse path from the
\* target reaches without passing through the sentinel; searchAtDepth is never
\* called for the sentinel, so a name behind the sentinel only is not recorded.
C17_UnboundedResultIsReachable ==
    /\ TopNode \notin CalledNames
    /\ (pc \in {"report", "done"} /\ MaxDepth <= 0) =>
           ResultNames = Reachable \ {Target, TopNode}

\* an unbounded search has returned records on a graph where the sentinel has
\* an edge to a searched name and a name has an edge to the sentinel only
C17_Witness ==
    /\ pc = "done" /\ MaxDepth <= 0 /\ Len(result) >= 2
    /\ \E name \in ResultNames \cup {Target} : <<TopNode, name>> \in CanonicalEdges
    /\ \E name \in CanonicalNodes \ visited : <<name, TopNode>> \in CanonicalEdges

====
